---- MODULE Spec2Model ----
(***************************************************************************)
(* StarPlanner (local_planner/src/nodes/star_planner.cpp): the look-ahead  *)
(* tree of one planning cycle, buildLookAheadTree, as a state machine.     *)
(*                                                                         *)
(* Positions are points of a plane lattice whose unit is 0.1 length units, *)
(* so the proximity threshold 0.2f is 2 lattice units.  Norms are compared *)
(* through their squares, which is exact on the lattice.  Costs are        *)
(* integers; Inf stands for HUGE_VAL, lies above every finite cost and     *)
(* absorbs addition.                                                       *)
(* The external collaborators (histogram, cost matrix, candidate           *)
(* extraction, costFunction) are inputs of the actions: the candidate      *)
(* vector and every edge cost are drawn from small sets.                   *)
(***************************************************************************)
EXTENDS Integers, Sequences, FiniteSets

\* ---------------------------------------------------------------- bounds
\* largest n_expanded_nodes_ tried
MaxExpand == 2
\* largest children_per_node_ tried
MaxChildren == 2
\* longest candidate_vector the extraction returns
MaxCands == 2

\* dist < 0.2f, in lattice units
CloseNodeThreshold == 2

\* HUGE_VAL
Inf == 1000000

\* the value setGoal gives tree_age_
TreeAgeStale == 1000

\* ---------------------------------------------------------------- inputs
\* start positions (position_)
Positions == { <<1, 2>> }
\* start velocities (velocity_)
Velocities == { <<1, 0>> }
\* goals (goal_)
Goals == { <<9, 8>>, <<-2, 6>> }
\* goals straight ahead of the start along <<4, 3>>, two steps and one step away
GoalsAhead == { <<9, 8>>, <<5, 5>> }
\* the directions a candidate can point to: vectors of norm 5 lattice units
Dirs == { <<4, 3>>, <<3, 4>>, <<-4, -3>> }
\* tree_node_distance_, in units of 0.5 length units
NodeDistances == { 0, 1 }
\* max_path_length_ in lattice units (positive)
PathLengths == { 5, 6, 11 }
\* values of costFunction
Costs == { 0, 2 }
\* clouds (cloud_): one with points in it and one with none
Clouds == { "points", "empty" }
\* cost parameter bundles (cost_params_)
CostParams == { "default", "cautious" }
\* last directions (projected_last_wp_)
LastDirections == { <<1, 0>>, <<0, 1>> }
\* yaw angles in the FCU frame, in degrees
Yaws == { 0, 300 }
\* the positions setPose is called with
PosePositions == Positions \cup { <<2, 2>> }
\* the configurations dynamicReconfigureSetStarParams is called with
Configs ==
  { [ children_per_node_ |-> 1, n_expanded_nodes_ |-> 1, tree_node_distance_ |-> 1,
      box_radius_ |-> 6, smoothing_margin_degrees_ |-> 30 ],
    [ children_per_node_ |-> 1, n_expanded_nodes_ |-> 0, tree_node_distance_ |-> 1,
      box_radius_ |-> 6, smoothing_margin_degrees_ |-> 30 ],
    [ children_per_node_ |-> 2, n_expanded_nodes_ |-> 1, tree_node_distance_ |-> 1,
      box_radius_ |-> 11, smoothing_margin_degrees_ |-> 40 ] }

VARIABLES
  \* inputs and parameters (fields set by the setters)
  position_, velocity_, curr_yaw_histogram_frame_deg_, goal_, cloud_,
  cost_params_, projected_last_wp_,
  children_per_node_, n_expanded_nodes_, tree_node_distance_, max_path_length_,
  smoothing_margin_degrees_,
  \* results
  tree_, closed_set_, path_node_positions_, path_node_origins_, tree_age_,
  \* locals of buildLookAheadTree
  pc, origin, n, is_expanded_node, candidate_vector, ci, children, tree_end,
  \* history: the nodes whose expansion found candidate_vector empty
  dead_ends,
  \* history: for every node of tree_, the result of costFunction it was
  \* made with (0 for the first node)
  edge_costs,
  \* history: the inputs of the cycles that are compared, what the extraction
  \* and costFunction returned in them for each of their arguments, and the
  \* results of the first of them
  replay

inputs == << position_, velocity_, curr_yaw_histogram_frame_deg_, goal_, cloud_,
             cost_params_, projected_last_wp_, children_per_node_, n_expanded_nodes_,
             tree_node_distance_, max_path_length_, smoothing_margin_degrees_ >>
results == << tree_, closed_set_, path_node_positions_, path_node_origins_, tree_age_ >>
locals == << pc, origin, n, is_expanded_node, candidate_vector, ci, children, tree_end >>
vars == << inputs, results, locals, dead_ends, edge_costs, replay >>
\* what a cycle leaves behind
lastCycle == << tree_, closed_set_, path_node_positions_, path_node_origins_ >>

\* ---------------------------------------------------------------- helpers
VecAdd(a, b) == << a[1] + b[1], a[2] + b[2] >>
VecSub(a, b) == << a[1] - b[1], a[2] - b[2] >>
VecScale(k, a) == << k * a[1], k * a[2] >>
\* squared norm of a vector
Norm2(a) == a[1] * a[1] + a[2] * a[2]

\* floor of the square root
RECURSIVE ISqrtFrom(_, _)
ISqrtFrom(x, r) == IF (r + 1) * (r + 1) > x THEN r ELSE ISqrtFrom(x, r + 1)
\* (a).norm(), rounded down to a lattice unit
Norm(a) == ISqrtFrom(Norm2(a), 0)

\* a < b on costs: Inf is above every finite cost and not below itself
CostLess(a, b) == a < b
\* a + b on costs
CostAdd(a, b) == IF a >= Inf \/ b >= Inf THEN Inf ELSE a + b
\* a - b on costs, b finite
CostSub(a, b) == IF a >= Inf THEN Inf ELSE a - b

\* (x).norm() < r for a vector x and a length r
NormLess(x, r) == r > 0 /\ Norm2(x) < r * r

\* tree_.size(), closed_set_.size(): a vector is a function on 0 .. size - 1
Size(v) == Cardinality(DOMAIN v)
\* v.push_back(x)
PushBack(v, x) == [ i \in 0 .. Size(v) |-> IF i < Size(v) THEN v[i] ELSE x ]
\* v.clear()
Empty == << >>

\* TreeNode(from, d, pos, vel): a new, open node
TreeNode(from, d, pos, vel) ==
  [ origin_ |-> from, depth_ |-> d, position |-> pos, velocity |-> vel,
    heuristic_ |-> 0, total_cost_ |-> 0, closed_ |-> FALSE ]

\* node.setCosts(h, c)
setCosts(node, h, c) == [ node EXCEPT !.heuristic_ = h, !.total_cost_ = c ]

\* treeHeuristicFunction(node_number): the distance from the node to the goal
treeHeuristicFunction(tree, node_number) == Norm(VecSub(goal_, tree[node_number].position))

\* candidate.toPolar(tree_node_distance_) and polarHistogramToCartesian: the point
\* at tree_node_distance_ from origin_position in the candidate's direction
polarHistogramToCartesian(candidate, origin_position) ==
  VecAdd(origin_position, VecScale(tree_node_distance_, candidate))

\* the directions that lead from origin_position to a point nearer the goal
GoalWard(origin_position) ==
  { d \in Dirs : Norm2(VecSub(goal_, polarHistogramToCartesian(d, origin_position)))
                  < Norm2(VecSub(goal_, origin_position)) }

\* all sequences over S of length at most k
SeqsUpTo(S, k) == UNION { [1 .. m -> S] : m \in 0 .. k }

\* lines 67-78: the candidate lists the histogram, the cost matrix and the
\* extraction can yield for an origin: with points in the cloud any list, with
\* none a list of goal-ward directions that is not empty (where no step leads
\* nearer the goal, at the goal or next to it, the list is again any)
getBestCandidatesFromCostMatrix(origin_position) ==
  IF cloud_ = "empty" /\ GoalWard(origin_position) # {}
  THEN SeqsUpTo(GoalWard(origin_position), MaxCands) \ { << >> }
  ELSE SeqsUpTo(Dirs, MaxCands)

\* mutant of CloseNode: the scan stops one node short (i < tree_.size() - 1)
CloseNodeSkipsLast(tree, node_location) ==
  \E i \in DOMAIN tree \ { Size(tree) - 1 } :
    NormLess(VecSub(tree[i].position, node_location), CloseNodeThreshold)

\* the scan for an existing node closer than the threshold: close_nodes > 0
CloseNode(tree, node_location) ==
  \E i \in DOMAIN tree :
    NormLess(VecSub(tree[i].position, node_location), CloseNodeThreshold)

\* mutant of Accepts: the branching limit is not tested
AcceptsAnyNumber(tree, node_location) == ~ CloseNode(tree, node_location)

\* mutant of Accepts: the branching limit is tested with <=
AcceptsOneMore(tree, node_location) ==
  children <= children_per_node_ /\ ~ CloseNode(tree, node_location)

\* line 103: the candidate becomes a child
Accepts(tree, node_location) ==
  children < children_per_node_ /\ ~ CloseNode(tree, node_location)

\* mutant of ChildDepth: the child gets the depth of its origin
ChildDepthOfOrigin(tree, org) == tree[org].depth_

\* line 85: the depth of the children of org
ChildDepth(tree, org) == tree[org].depth_ + 1

\* mutant of NewNode: the heuristic of the origin stays in the cost
NewNodeCompounds(tree, org, node_location, c) ==
  LET depth == ChildDepth(tree, org)
      origin_position == tree[org].position
      node_velocity == VecAdd(tree[tree[org].origin_].velocity,
                              VecSub(node_location, origin_position))
      pushed == PushBack(tree, TreeNode(org, depth, node_location, node_velocity))
      h == treeHeuristicFunction(pushed, Size(pushed) - 1)
  IN  [ pushed[Size(pushed) - 1] EXCEPT
          !.heuristic_ = h,
          !.total_cost_ = CostAdd(CostAdd(tree[org].total_cost_, c), h) ]

\* lines 104-114: the child pushed for an accepted candidate, given the edge cost c
NewNode(tree, org, node_location, c) ==
  LET depth == ChildDepth(tree, org)
      origin_position == tree[org].position
      node_velocity == VecAdd(tree[tree[org].origin_].velocity,
                              VecSub(node_location, origin_position))
      pushed == PushBack(tree, TreeNode(org, depth, node_location, node_velocity))
      h == treeHeuristicFunction(pushed, Size(pushed) - 1)
  IN  [ pushed[Size(pushed) - 1] EXCEPT
          !.heuristic_ = h,
          !.total_cost_ = CostAdd(CostAdd(CostSub(tree[org].total_cost_,
                                                  tree[org].heuristic_), c), h) ]

\* mutant of FirstNode: tree_ is not cleared, the first node is pushed behind
\* the nodes of the cycle before
FirstNodeNoClear ==
  LET first == PushBack(tree_, TreeNode(0, 0, position_, velocity_))
      back == Size(first) - 1
  IN  [ first EXCEPT ![back] = setCosts(first[back], treeHeuristicFunction(first, back),
                                        treeHeuristicFunction(first, back)) ]

\* mutant of FirstNode: the total cost of the first node is left at 0
FirstNodeCostUnset ==
  LET first == PushBack(Empty, TreeNode(0, 0, position_, velocity_))
  IN  [ first EXCEPT ![0] = setCosts(first[0], treeHeuristicFunction(first, 0), 0) ]

\* lines 57-58: the tree holding the first node only
FirstNode ==
  LET first == PushBack(Empty, TreeNode(0, 0, position_, velocity_))
  IN  [ first EXCEPT ![0] = setCosts(first[0], treeHeuristicFunction(first, 0),
                                     treeHeuristicFunction(first, 0)) ]

\* mutant of MarkDeadEnd: the total cost is left as it is
MarkDeadEndNoop(tree, org) == tree

\* line 82: no candidate, the origin is a dead end
MarkDeadEnd(tree, org) == [ tree EXCEPT ![org].total_cost_ = Inf ]

\* mutant of Qualifies: the distance is taken from the parent of the node
QualifiesByParentDistance(tree, i, minimal_cost) ==
  /\ ~ tree[i].closed_
  /\ CostLess(tree[i].total_cost_, minimal_cost)
  /\ NormLess(VecSub(tree[i].position, tree[tree[i].origin_].position), max_path_length_)

\* mutant of Qualifies: closed nodes take part in the scan
QualifiesClosedToo(tree, i, minimal_cost) ==
  /\ CostLess(tree[i].total_cost_, minimal_cost)
  /\ NormLess(VecSub(tree[i].position, position_), max_path_length_)

\* mutant of Qualifies: a node of equal cost replaces the one found so far
QualifiesOnTie(tree, i, minimal_cost) ==
  /\ ~ tree[i].closed_
  /\ ~ CostLess(minimal_cost, tree[i].total_cost_)
  /\ NormLess(VecSub(tree[i].position, position_), max_path_length_)

\* lines 130-132: a node qualifies in the scan for the best node to continue
Qualifies(tree, i, minimal_cost) ==
  /\ ~ tree[i].closed_
  /\ CostLess(tree[i].total_cost_, minimal_cost)
  /\ NormLess(VecSub(tree[i].position, position_), max_path_length_)

\* mutant of SelectFrom: minimal_cost is not lowered when a node is taken
RECURSIVE SelectFromNoUpdate(_, _, _)
SelectFromNoUpdate(tree, i, sel) ==
  IF i >= Size(tree) THEN sel
  ELSE IF Qualifies(tree, i, sel.minimal_cost)
       THEN SelectFromNoUpdate(tree, i + 1, [ minimal_cost |-> sel.minimal_cost,
                                              origin |-> i,
                                              is_expanded_node |-> TRUE ])
       ELSE SelectFromNoUpdate(tree, i + 1, sel)

\* lines 129-138: the scan from index i on; sel holds minimal_cost, origin and
\* is_expanded_node
RECURSIVE SelectFrom(_, _, _)
SelectFrom(tree, i, sel) ==
  IF i >= Size(tree) THEN sel
  ELSE IF Qualifies(tree, i, sel.minimal_cost)
       THEN SelectFrom(tree, i + 1, [ minimal_cost |-> tree[i].total_cost_,
                                      origin |-> i,
                                      is_expanded_node |-> TRUE ])
       ELSE SelectFrom(tree, i + 1, sel)

\* mutant of BestNode: is_expanded_node is not reset before the scan
BestNodeFlagKept(tree, org) ==
  SelectFrom(tree, 0, [ minimal_cost |-> Inf, origin |-> org,
                        is_expanded_node |-> is_expanded_node ])

\* mutant of BestNode: the scan is left out, no node is found
BestNodeNoScan(tree, org) ==
  [ minimal_cost |-> Inf, origin |-> org, is_expanded_node |-> FALSE ]

\* mutant of BestNode: the root is the origin when no node is found
BestNodeOrRoot(tree, org) ==
  SelectFrom(tree, 0, [ minimal_cost |-> Inf, origin |-> 0,
                        is_expanded_node |-> FALSE ])

\* lines 127-138: find the best node to continue; org is the origin so far
BestNode(tree, org) ==
  SelectFrom(tree, 0, [ minimal_cost |-> Inf, origin |-> org,
                        is_expanded_node |-> FALSE ])


\* ---------------------------------------------------------------- Init
\* The constructor sets tree_age_ only; the input fields hold whatever the
\* setters stored before the first cycle.
InitWith(goals, cloud) ==
  /\ position_ \in Positions
  /\ velocity_ \in Velocities
  /\ curr_yaw_histogram_frame_deg_ = 90
  /\ goal_ \in goals
  /\ cloud_ = cloud
  /\ cost_params_ = "default"
  /\ projected_last_wp_ = <<1, 0>>
  /\ smoothing_margin_degrees_ = 30
  /\ children_per_node_ \in -1 .. MaxChildren
  /\ n_expanded_nodes_ \in -1 .. MaxExpand
  /\ tree_node_distance_ \in NodeDistances
  /\ max_path_length_ \in PathLengths
  /\ tree_ = Empty
  /\ closed_set_ = Empty
  /\ path_node_positions_ = Empty
  /\ path_node_origins_ = Empty
  /\ tree_age_ = 0
  /\ pc = "idle"
  /\ origin = 0
  /\ n = 0
  /\ is_expanded_node = TRUE
  /\ candidate_vector = << >>
  /\ ci = 1
  /\ children = 0
  /\ tree_end = 0
  /\ dead_ends = {}
  /\ edge_costs = Empty

\* no cycles are compared
NoReplay == [ reference |-> << >>, candidates |-> {}, costs |-> {}, first_results |-> {} ]

\* the planner after construction, a goal and a cloud with points set
Init == InitWith(Goals, "points") /\ replay = NoReplay

\* the planner with a goal ahead and a cloud with no points
InitOpen == InitWith(GoalsAhead, "empty") /\ replay = NoReplay

\* the planner before cycles whose results are compared: the cycles with the
\* inputs of this state
InitRepeat ==
  /\ InitWith(Goals, "points")
  /\ n_expanded_nodes_ = 1
  /\ children_per_node_ = MaxChildren
  /\ tree_node_distance_ = 1
  /\ max_path_length_ = 11
  /\ replay = [ NoReplay EXCEPT !.reference = inputs ]

\* ---------------------------------------------------------------- setters
\* the fields of the planner that no setter writes, and the locals
notInputs == << tree_, closed_set_, path_node_positions_, path_node_origins_,
                locals, dead_ends, edge_costs, replay >>

\* wrapAngleToPlusMinus180: the angle brought into (-180, 180]
wrapAngleToPlusMinus180(angle) == 180 - ((180 - angle) % 360)

\* lines 14-20
dynamicReconfigureSetStarParams(config) ==
  /\ pc = "idle"
  /\ children_per_node_' = config.children_per_node_
  /\ n_expanded_nodes_' = config.n_expanded_nodes_
  /\ tree_node_distance_' = config.tree_node_distance_
  /\ max_path_length_' = config.box_radius_
  /\ smoothing_margin_degrees_' = config.smoothing_margin_degrees_
  /\ UNCHANGED << position_, velocity_, curr_yaw_histogram_frame_deg_, goal_, cloud_,
                  cost_params_, projected_last_wp_, tree_age_, notInputs >>

\* line 22
setParams(cost_params) ==
  /\ pc = "idle"
  /\ cost_params_' = cost_params
  /\ UNCHANGED << position_, velocity_, curr_yaw_histogram_frame_deg_, goal_, cloud_,
                  projected_last_wp_, children_per_node_, n_expanded_nodes_,
                  tree_node_distance_, max_path_length_, smoothing_margin_degrees_,
                  tree_age_, notInputs >>

\* line 24
setLastDirection(projected_last_wp) ==
  /\ pc = "idle"
  /\ projected_last_wp_' = projected_last_wp
  /\ UNCHANGED << position_, velocity_, curr_yaw_histogram_frame_deg_, goal_, cloud_,
                  cost_params_, children_per_node_, n_expanded_nodes_,
                  tree_node_distance_, max_path_length_, smoothing_margin_degrees_,
                  tree_age_, notInputs >>

\* lines 26-30
setPose(pos, vel, curr_yaw_fcu_frame_deg) ==
  /\ pc = "idle"
  /\ position_' = pos
  /\ velocity_' = vel
  /\ curr_yaw_histogram_frame_deg_' = wrapAngleToPlusMinus180(90 - curr_yaw_fcu_frame_deg)
  /\ UNCHANGED << goal_, cloud_, cost_params_, projected_last_wp_, children_per_node_,
                  n_expanded_nodes_, tree_node_distance_, max_path_length_,
                  smoothing_margin_degrees_, tree_age_, notInputs >>

\* mutant of setGoal: the age of the tree is left as it is
setGoalKeepsAge(goal) ==
  /\ pc = "idle"
  /\ goal_' = goal
  /\ UNCHANGED << position_, velocity_, curr_yaw_histogram_frame_deg_, cloud_,
                  cost_params_, projected_last_wp_, children_per_node_, n_expanded_nodes_,
                  tree_node_distance_, max_path_length_, smoothing_margin_degrees_,
                  tree_age_, notInputs >>

\* lines 32-35
setGoal(goal) ==
  /\ pc = "idle"
  /\ goal_' = goal
  /\ tree_age_' = TreeAgeStale
  /\ UNCHANGED << position_, velocity_, curr_yaw_histogram_frame_deg_, cloud_,
                  cost_params_, projected_last_wp_, children_per_node_, n_expanded_nodes_,
                  tree_node_distance_, max_path_length_, smoothing_margin_degrees_,
                  notInputs >>

\* mutant of setPointcloud: a new cloud discards the path of the last cycle
setPointcloudClearsPath(cloud) ==
  /\ pc = "idle"
  /\ cloud_' = cloud
  /\ path_node_positions_' = Empty
  /\ path_node_origins_' = Empty
  /\ UNCHANGED << position_, velocity_, curr_yaw_histogram_frame_deg_, goal_,
                  cost_params_, projected_last_wp_, children_per_node_, n_expanded_nodes_,
                  tree_node_distance_, max_path_length_, smoothing_margin_degrees_,
                  tree_age_, tree_, closed_set_, locals, dead_ends, edge_costs, replay >>

\* line 37
setPointcloud(cloud) ==
  /\ pc = "idle"
  /\ cloud_' = cloud
  /\ UNCHANGED << position_, velocity_, curr_yaw_histogram_frame_deg_, goal_,
                  cost_params_, projected_last_wp_, children_per_node_, n_expanded_nodes_,
                  tree_node_distance_, max_path_length_, smoothing_margin_degrees_,
                  tree_age_, notInputs >>

\* ---------------------------------------------------------------- buildLookAheadTree
\* lines 44-62: clear the tree and the closed set, insert the first node
BuildStart ==
  /\ pc = "idle"
  /\ tree_' = FirstNode
  /\ closed_set_' = Empty
  /\ is_expanded_node' = TRUE
  /\ origin' = 0
  /\ n' = 0
  /\ candidate_vector' = << >>
  /\ dead_ends' = {}
  /\ edge_costs' = PushBack(Empty, 0)
  /\ pc' = "for"
  /\ UNCHANGED << inputs, path_node_positions_, path_node_origins_, tree_age_,
                  ci, children, tree_end, replay >>

\* mutant of LoopCondition: the budget is tested with <=
LoopConditionOneMore == n <= n_expanded_nodes_ /\ is_expanded_node

\* the loop condition of line 63
LoopCondition == n < n_expanded_nodes_ /\ is_expanded_node

\* lines 63-86: enter an iteration; the extraction fills candidate_vector with
\* one of the lists cvs
ExpandStartFrom(cvs) ==
  /\ pc = "for"
  /\ LoopCondition
  /\ \E cv \in cvs :
       /\ candidate_vector' = cv
       /\ IF cv = << >>
          THEN /\ tree_' = MarkDeadEnd(tree_, origin)
               /\ dead_ends' = dead_ends \cup { origin }
               /\ pc' = "close"
          ELSE /\ tree_' = tree_
               /\ dead_ends' = dead_ends
               /\ pc' = "cand"
  /\ children' = 0
  /\ ci' = 1
  /\ UNCHANGED << inputs, closed_set_, path_node_positions_, path_node_origins_,
                  tree_age_, origin, n, is_expanded_node, tree_end, edge_costs >>

\* lines 63-86 with the extraction free in what it returns
ExpandStart ==
  /\ ExpandStartFrom(getBestCandidatesFromCostMatrix(tree_[origin].position))
  /\ UNCHANGED replay

\* lines 87-120: one candidate of the range-for; costFunction returns c, one
\* of costs
CandidateStepFrom(costs) ==
  /\ pc = "cand"
  /\ LET candidate == candidate_vector[ci]
         node_location == polarHistogramToCartesian(candidate, tree_[origin].position)
     IN  IF Accepts(tree_, node_location)
         THEN /\ \E c \in costs :
                   /\ tree_' = PushBack(tree_, NewNode(tree_, origin, node_location, c))
                   /\ edge_costs' = PushBack(edge_costs, c)
              /\ children' = children + 1
         ELSE /\ tree_' = tree_
              /\ edge_costs' = edge_costs
              /\ children' = children
  /\ ci' = ci + 1
  /\ pc' = IF ci = Len(candidate_vector) THEN "close" ELSE "cand"
  /\ UNCHANGED << inputs, closed_set_, path_node_positions_, path_node_origins_,
                  tree_age_, origin, n, is_expanded_node, candidate_vector, tree_end,
                  dead_ends >>

\* lines 87-120 with costFunction free in what it returns
CandidateStep ==
  /\ CandidateStepFrom(Costs)
  /\ UNCHANGED replay

\* lines 123-142: close the origin, find the best node to continue, n++
CloseAndSelect ==
  /\ pc = "close"
  /\ closed_set_' = PushBack(closed_set_, origin)
  /\ tree_' = [ tree_ EXCEPT ![origin].closed_ = TRUE ]
  /\ LET sel == BestNode(tree_', origin)
     IN  /\ origin' = sel.origin
         /\ is_expanded_node' = sel.is_expanded_node
  /\ candidate_vector' = << >>
  /\ n' = n + 1
  /\ pc' = "for"
  /\ UNCHANGED << inputs, path_node_positions_, path_node_origins_, tree_age_,
                  ci, children, tree_end, dead_ends, edge_costs, replay >>

\* mutant of TreeEnd: the walk starts from the node added last
TreeEndLastNode(org) == Size(tree_) - 1

\* line 144: the node the walk to the root starts from
TreeEnd(org) == org

\* lines 63, 144-146: leave the loop, clear the path
ExtractStart ==
  /\ pc = "for"
  /\ ~ LoopCondition
  /\ tree_end' = TreeEnd(origin)
  /\ path_node_positions_' = Empty
  /\ path_node_origins_' = Empty
  /\ pc' = "back"
  /\ UNCHANGED << inputs, tree_, closed_set_, tree_age_, origin, n,
                  is_expanded_node, candidate_vector, ci, children, dead_ends, edge_costs, replay >>

\* mutant of StepBack: the walk goes to the previous index
StepBackByIndex(tree, k) == k - 1

\* line 150: the node the walk goes to from tree_end
StepBack(tree, k) == tree[k].origin_

\* lines 147-151: one step of the walk to the root
BacktrackStep ==
  /\ pc = "back"
  /\ tree_end > 0
  /\ path_node_origins_' = PushBack(path_node_origins_, tree_end)
  /\ path_node_positions_' = PushBack(path_node_positions_, tree_[tree_end].position)
  /\ tree_end' = StepBack(tree_, tree_end)
  /\ UNCHANGED << inputs, tree_, closed_set_, tree_age_, pc, origin, n,
                  is_expanded_node, candidate_vector, ci, children, dead_ends, edge_costs, replay >>

\* lines 152-154: the root ends the path and the tree is fresh.  The locals go
\* out of scope; origin is left as it is, the node the walk started from.
BuildEndStep ==
  /\ pc = "back"
  /\ ~ (tree_end > 0)
  /\ path_node_positions_' = PushBack(path_node_positions_, tree_[0].position)
  /\ path_node_origins_' = PushBack(path_node_origins_, 0)
  /\ tree_age_' = 0
  /\ pc' = "idle"
  /\ n' = 0
  /\ is_expanded_node' = TRUE
  /\ candidate_vector' = << >>
  /\ ci' = 1
  /\ children' = 0
  /\ tree_end' = 0
  /\ UNCHANGED << inputs, tree_, closed_set_, origin, dead_ends, edge_costs >>

\* lines 152-154, no cycles compared
BuildEnd ==
  /\ BuildEndStep
  /\ UNCHANGED replay

Next ==
  \/ BuildStart
  \/ ExpandStart
  \/ CandidateStep
  \/ CloseAndSelect
  \/ ExtractStart
  \/ BacktrackStep
  \/ BuildEnd

Spec == Init /\ [][Next]_vars

\* a step of a cycle under way
CycleStep ==
  \/ ExpandStart
  \/ CandidateStep
  \/ CloseAndSelect
  \/ ExtractStart
  \/ BacktrackStep
  \/ BuildEnd

\* buildLookAheadTree runs to completion: a cycle that has started keeps
\* taking its steps. One goal and the largest selection radius, every budget and branching
InitFair ==
  /\ Init
  /\ goal_ = <<9, 8>>
  /\ max_path_length_ = 11

FairSpec == InitFair /\ [][Next]_vars /\ WF_vars(CycleStep)

\* ---------------------------------------------------------------- repeated cycles
\* the cycle under way has the inputs of the cycles that are compared
Replaying == replay.reference = inputs

\* what a function of the planner's collaborators returns for the arguments
\* key: what it returned for them before in a compared cycle, else one of all
Answers(memo, key, all) ==
  LET known == { p[2] : p \in { q \in memo : q[1] = key } }
  IN  IF Replaying /\ known # {} THEN known ELSE all

\* memo with the answer for key, in a compared cycle
Learn(memo, key, answer) == IF Replaying THEN memo \cup { << key, answer >> } ELSE memo

\* lines 63-86 with an extraction that is a function of its arguments: the
\* cloud, goal and parameters, and the position and velocity of the origin
ExpandStartRepeat ==
  LET key == << tree_[origin].position, tree_[origin].velocity >>
  IN  /\ ExpandStartFrom(Answers(replay.candidates, key,
                                 getBestCandidatesFromCostMatrix(tree_[origin].position)))
      /\ replay' = [ replay EXCEPT !.candidates = Learn(@, key, candidate_vector') ]

\* lines 87-120 with a costFunction that is a function of its arguments: the
\* goal and parameters, the candidate, and the location and velocity of the node
CandidateStepRepeat ==
  LET key == << tree_[origin].position, candidate_vector[ci],
                tree_[tree_[origin].origin_].velocity >>
  IN  /\ CandidateStepFrom(Answers(replay.costs, key, Costs))
      /\ replay' = IF Size(edge_costs') > Size(edge_costs)
                   THEN [ replay EXCEPT !.costs = Learn(@, key, edge_costs'[Size(edge_costs)]) ]
                   ELSE replay

\* lines 152-154; the results of the first compared cycle are kept
BuildEndRepeat ==
  /\ BuildEndStep
  /\ replay' = IF Replaying /\ replay.first_results = {}
               THEN [ replay EXCEPT !.first_results = { lastCycle' } ]
               ELSE replay

\* cycles with the same inputs again and again, and cycles with another goal
\* between them
NextRepeat ==
  \/ BuildStart
  \/ ExpandStartRepeat
  \/ CandidateStepRepeat
  \/ CloseAndSelect
  \/ ExtractStart
  \/ BacktrackStep
  \/ BuildEndRepeat
  \/ \E goal \in Goals : setGoal(goal)

SpecRepeat == InitRepeat /\ [][NextRepeat]_vars

\* cycles over a cloud with no points
SpecOpen == InitOpen /\ [][Next]_vars

\* ---------------------------------------------------------------- setters and cycles
\* the calls of the setters, between cycles
CallDynamicReconfigure == \E config \in Configs : dynamicReconfigureSetStarParams(config)
CallSetParams == \E cost_params \in CostParams : setParams(cost_params)
CallSetLastDirection == \E wp \in LastDirections : setLastDirection(wp)
CallSetPose == \E pos \in PosePositions, vel \in Velocities, yaw \in Yaws : setPose(pos, vel, yaw)
CallSetGoal == \E goal \in Goals : setGoal(goal)
CallSetPointcloud == \E cloud \in Clouds : setPointcloud(cloud)

\* the planner starts with one of the configurations
InitSetters ==
  /\ Init
  /\ \E config \in Configs :
       /\ children_per_node_ = config.children_per_node_
       /\ n_expanded_nodes_ = config.n_expanded_nodes_
       /\ tree_node_distance_ = config.tree_node_distance_
       /\ max_path_length_ = config.box_radius_
       /\ smoothing_margin_degrees_ = config.smoothing_margin_degrees_

NextSetters ==
  \/ CallDynamicReconfigure
  \/ CallSetParams
  \/ CallSetLastDirection
  \/ CallSetPose
  \/ CallSetGoal
  \/ CallSetPointcloud
  \/ Next

SpecSetters == InitSetters /\ [][NextSetters]_vars

\* ---------------------------------------------------------------- properties
\* a cycle has run to its end and no other is under way
Completed == pc = "idle" /\ tree_ # Empty

\* the indices closed_set_ holds
ClosedIndices == { closed_set_[k] : k \in DOMAIN closed_set_ }
\* the children of node i
ChildrenOf(i) == { j \in DOMAIN tree_ \ { 0 } : tree_[j].origin_ = i }
\* the last index of a non-empty vector
Last(v) == Size(v) - 1
\* the node is within max_path_length_ of the start position
InRadius(i) == NormLess(VecSub(tree_[i].position, position_), max_path_length_)

\* C1 as stated: after a completed cycle node 0 has total_cost_ equal to its
\* heuristic_, is its own parent and has depth 0.
C1_RootCostIsHeuristic ==
  Completed =>
    /\ tree_[0].total_cost_ = tree_[0].heuristic_
    /\ tree_[0].origin_ = 0
    /\ tree_[0].depth_ = 0

\* C1 amended: after a completed cycle node 0 is its own parent, has depth 0 and
\* has total_cost_ equal to its heuristic_, unless the expansion of the root
\* found the candidate list empty: then its total_cost_ is HUGE_VAL.
C1_RootInvariant ==
  Completed =>
    /\ tree_[0].origin_ = 0
    /\ tree_[0].depth_ = 0
    /\ tree_[0].heuristic_ = treeHeuristicFunction(tree_, 0)
    /\ tree_[0].total_cost_ = IF 0 \in dead_ends THEN Inf ELSE tree_[0].heuristic_

\* a cycle has ended whose root expansion found the candidate list empty
C1_Witness ==
  /\ Completed
  /\ 0 \in dead_ends
  /\ tree_[0].total_cost_ # tree_[0].heuristic_

\* C2 as stated: the output path runs root -> destination: its first element
\* is node 0 and its last element is the node the backtracking started from.
C2_RootFirst ==
  Completed =>
    /\ path_node_origins_[0] = 0
    /\ path_node_origins_[Last(path_node_origins_)] = origin
    /\ path_node_positions_[0] = tree_[0].position
    /\ path_node_positions_[Last(path_node_positions_)] = tree_[origin].position

\* C2 amended: the output path runs destination -> root: its first element is
\* the node the backtracking started from (the last selected origin) and its
\* last element is the root, node 0.
C2_DestinationFirst ==
  Completed =>
    /\ path_node_origins_[0] = origin
    /\ path_node_origins_[Last(path_node_origins_)] = 0
    /\ path_node_positions_[0] = tree_[origin].position
    /\ path_node_positions_[Last(path_node_positions_)] = tree_[0].position

\* a completed cycle whose path has three entries, from a node of depth 2
C2_Witness ==
  /\ Completed
  /\ Size(path_node_origins_) = 3
  /\ path_node_origins_[0] # 0

\* C3: after a cycle the path is one unbroken parent chain: each entry is
\* followed by its parent, the positions are those of the nodes named, node 0
\* occurs once, as the last entry, and the path has depth_ of the destination
\* plus one entries.
C3_PathIsParentChain ==
  Completed =>
    /\ Size(path_node_origins_) = tree_[origin].depth_ + 1
    /\ Size(path_node_positions_) = Size(path_node_origins_)
    /\ \A k \in DOMAIN path_node_origins_ :
         /\ path_node_origins_[k] \in DOMAIN tree_
         /\ path_node_positions_[k] = tree_[path_node_origins_[k]].position
         /\ (path_node_origins_[k] = 0) = (k = Last(path_node_origins_))
         /\ k < Last(path_node_origins_) =>
              path_node_origins_[k + 1] = tree_[path_node_origins_[k]].origin_

\* a path of three entries whose middle node is not the index below the
\* destination
C3_Witness ==
  /\ Completed
  /\ Size(path_node_origins_) = 3
  /\ path_node_origins_[1] # path_node_origins_[0] - 1

\* following parent links from node i reaches node 0 within fuel steps
RECURSIVE ReachesRoot(_, _)
ReachesRoot(i, fuel) ==
  IF i = 0 THEN TRUE
  ELSE IF fuel = 0 \/ i \notin DOMAIN tree_ THEN FALSE
  ELSE ReachesRoot(tree_[i].origin_, fuel - 1)

\* C4: in every state every node i > 0 has a parent index below i and is one
\* deeper than its parent, and its parent links lead to node 0.
C4_TreeShape ==
  \A i \in DOMAIN tree_ \ { 0 } :
    /\ tree_[i].origin_ \in 0 .. i - 1
    /\ tree_[i].depth_ = tree_[tree_[i].origin_].depth_ + 1
    /\ ReachesRoot(i, tree_[i].depth_)

\* a tree under construction that holds a node of depth 2 next to nodes of depth 1
C4_Witness ==
  /\ pc = "cand"
  /\ \E i \in DOMAIN tree_ : tree_[i].depth_ = 2 /\ tree_[i].origin_ # i - 1

\* C5: in every state no two distinct nodes of tree_ are closer to each other
\* than the proximity threshold.
C5_NoCloseNodes ==
  \A i, j \in DOMAIN tree_ :
    i # j => ~ NormLess(VecSub(tree_[i].position, tree_[j].position), CloseNodeThreshold)

\* the location of the k-th candidate of the current expansion
CandidateLocation(k) == polarHistogramToCartesian(candidate_vector[k], tree_[origin].position)

\* a candidate was rejected although the branching limit was not reached: it
\* lies close to, and not on, a sibling added earlier in the same expansion
C5_Witness ==
  /\ pc = "close"
  /\ Len(candidate_vector) = 2
  /\ children = 1
  /\ children_per_node_ = 2
  /\ \E j \in ChildrenOf(origin) :
       /\ CandidateLocation(2) # tree_[j].position
       /\ NormLess(VecSub(CandidateLocation(2), tree_[j].position), CloseNodeThreshold)

\* C6: with a positive budget and branching factor the iterations of a cycle, and
\* the size of closed_set_, never exceed n_expanded_nodes_, no expansion appends
\* more than children_per_node_ children, and tree_ never holds more than
\* 1 + n_expanded_nodes_ * children_per_node_ nodes.
C6_BudgetBound ==
  (n_expanded_nodes_ > 0 /\ children_per_node_ > 0) =>
    /\ n <= n_expanded_nodes_
    /\ Size(closed_set_) <= n_expanded_nodes_
    /\ children <= children_per_node_
    /\ \A i \in DOMAIN tree_ : Cardinality(ChildrenOf(i)) <= children_per_node_
    /\ Size(tree_) <= 1 + n_expanded_nodes_ * children_per_node_

\* the extraction returned more candidates than the branching factor, and one
\* that is close to no node was left out because the limit was reached
C6_Witness ==
  /\ pc = "close"
  /\ children_per_node_ > 0
  /\ Len(candidate_vector) > children_per_node_
  /\ children = children_per_node_
  /\ \E k \in 1 .. Len(candidate_vector) : ~ CloseNode(tree_, CandidateLocation(k))

\* C7: the node selected as the next origin, and every node that is or was
\* expanded, lies strictly within max_path_length_ of the start position.
C7_SelectedWithinRadius ==
  tree_ # Empty =>
    /\ InRadius(origin)
    /\ \A i \in ClosedIndices : InRadius(i)

\* the selection passed over an open node that is cheaper than the node it
\* chose and lies at or beyond the radius
C7_Witness ==
  /\ pc = "for"
  /\ n > 0
  /\ is_expanded_node
  /\ \E i \in DOMAIN tree_ :
       /\ ~ tree_[i].closed_
       /\ ~ InRadius(i)
       /\ CostLess(tree_[i].total_cost_, tree_[origin].total_cost_)

\* closed_set_ holds no index twice and holds the nodes whose closed_ is set;
\* the node about to be expanded, or being expanded, is open
C8_Inv ==
  /\ \A k, l \in DOMAIN closed_set_ : k # l => closed_set_[k] # closed_set_[l]
  /\ ClosedIndices = { i \in DOMAIN tree_ : tree_[i].closed_ }
  /\ (pc = "for" /\ LoopCondition) => ~ tree_[origin].closed_
  /\ pc \in { "cand", "close" } => ~ tree_[origin].closed_

\* within a cycle a closed node stays in the tree and stays closed
C8_Step ==
  pc # "idle" =>
    \A i \in DOMAIN tree_ :
      tree_[i].closed_ => (i \in DOMAIN tree_' /\ tree_'[i].closed_)

\* C8: within a cycle a node is expanded at most once: a closed node is never
\* selected nor expanded again, closed_ never goes back to false, and
\* closed_set_ holds, once each, the indices of the nodes whose closed_ is set.
C8_ClosedOnce == [] C8_Inv /\ [][C8_Step]_vars

\* the selection chose a node although a closed node within the radius is cheaper
C8_Witness ==
  /\ pc = "for"
  /\ LoopCondition
  /\ \E i \in ClosedIndices :
       InRadius(i) /\ CostLess(tree_[i].total_cost_, tree_[origin].total_cost_)

\* the node was expanded and its expansion accepted no child
Barren(i) == i \in ClosedIndices /\ ChildrenOf(i) = {}

\* C9 as stated, for a positive budget, branching factor and step distance:
\* every origin whose expansion accepted no child is closed and ends the cycle
\* with an infinite total_cost_.
C9_BarrenIsInfinite ==
  (Completed /\ n_expanded_nodes_ > 0 /\ children_per_node_ > 0 /\ tree_node_distance_ > 0) =>
    \A i \in DOMAIN tree_ :
      Barren(i) => (tree_[i].closed_ /\ tree_[i].total_cost_ = Inf)

\* C9 amended: every origin whose expansion accepted no child is closed; it
\* ends the cycle with an infinite total_cost_ when the extraction returned no
\* candidate, and with a finite one when candidates were returned and all of
\* them were rejected.
C9_BarrenIsClosed ==
  Completed =>
    \A i \in DOMAIN tree_ :
      /\ Barren(i) => tree_[i].closed_
      /\ Barren(i) => (tree_[i].total_cost_ = Inf) = (i \in dead_ends)
      /\ i \in dead_ends => Barren(i)

\* a cycle has ended in which a node below the root was expanded, got
\* candidates and had all of them rejected
C9_Witness ==
  /\ Completed
  /\ \E i \in DOMAIN tree_ \ { 0 } :
       Barren(i) /\ i \notin dead_ends /\ tree_[i].total_cost_ < Inf

\* the root was expanded and its expansion accepted no child
RootBarren == Barren(0)

\* C10: once the expansion of the root has accepted no child, the loop ends
\* with that iteration: tree_ holds the root only, closed_set_ is [0], and the
\* path of the cycle is the root position alone, with index 0.
C10_RootOnly ==
  RootBarren =>
    /\ Size(tree_) = 1
    /\ closed_set_ = PushBack(Empty, 0)
    /\ pc \notin { "cand", "close" }
    /\ pc = "for" => ~ LoopCondition
    /\ Completed =>
         /\ path_node_origins_ = PushBack(Empty, 0)
         /\ path_node_positions_ = PushBack(Empty, tree_[0].position)

\* a cycle that had budget for a second iteration has ended with a root
\* whose expansion accepted no child
C10_Witness ==
  /\ Completed
  /\ RootBarren
  /\ n_expanded_nodes_ > 1

\* C11: with n_expanded_nodes_ <= 0 or children_per_node_ <= 0 a cycle adds no
\* child, so tree_ holds the root only, and its path is the root position
\* alone, whatever the extraction returns.
C11_NoExpansion ==
  (n_expanded_nodes_ <= 0 \/ children_per_node_ <= 0) =>
    /\ tree_ # Empty => Size(tree_) = 1
    /\ Completed =>
         /\ path_node_origins_ = PushBack(Empty, 0)
         /\ path_node_positions_ = PushBack(Empty, tree_[0].position)

\* a cycle with a budget and no branching factor has ended: the root was
\* expanded, candidates were returned and none became a child
C11_Witness ==
  /\ Completed
  /\ n_expanded_nodes_ > 0
  /\ children_per_node_ <= 0
  /\ tree_node_distance_ > 0
  /\ 0 \in ClosedIndices
  /\ 0 \notin dead_ends

\* a step of a setter other than setGoal
OtherSetterCall ==
  \/ CallDynamicReconfigure
  \/ CallSetParams
  \/ CallSetLastDirection
  \/ CallSetPose
  \/ CallSetPointcloud

\* what a step does to tree_age_
C13_Step ==
  /\ CallSetGoal => tree_age_' = TreeAgeStale
  /\ goal_' # goal_ => tree_age_' = TreeAgeStale
  /\ BuildEnd => tree_age_' = 0
  /\ (pc' = "idle" /\ pc # "idle") => tree_age_' = 0
  /\ OtherSetterCall => tree_age_' = tree_age_
  /\ (pc' # "idle") => tree_age_' = tree_age_

\* C13: right after setGoal tree_age_ is the sentinel 1000; no other setter
\* and no step of a cycle but its last changes tree_age_; right after every
\* completed buildLookAheadTree tree_age_ is 0.
C13_TreeAge == [][C13_Step]_vars

\* after a setGoal a cycle is in its walk to the root and the age is still 1000
C13_Witness ==
  /\ pc = "back"
  /\ tree_age_ = TreeAgeStale
  /\ Size(path_node_origins_) > 0

\* the tree and the path of the last cycle
\* what a step of each setter leaves alone, and what a step of a cycle does
C14_Step ==
  /\ (pc = "idle" /\ pc' = "idle") => UNCHANGED lastCycle
  /\ CallDynamicReconfigure =>
       UNCHANGED << position_, velocity_, curr_yaw_histogram_frame_deg_, goal_, cloud_,
                    cost_params_, projected_last_wp_, tree_age_, lastCycle >>
  /\ CallSetParams =>
       UNCHANGED << position_, velocity_, curr_yaw_histogram_frame_deg_, goal_, cloud_,
                    projected_last_wp_, children_per_node_, n_expanded_nodes_,
                    tree_node_distance_, max_path_length_, smoothing_margin_degrees_,
                    tree_age_, lastCycle >>
  /\ CallSetLastDirection =>
       UNCHANGED << position_, velocity_, curr_yaw_histogram_frame_deg_, goal_, cloud_,
                    cost_params_, children_per_node_, n_expanded_nodes_,
                    tree_node_distance_, max_path_length_, smoothing_margin_degrees_,
                    tree_age_, lastCycle >>
  /\ CallSetPose =>
       UNCHANGED << goal_, cloud_, cost_params_, projected_last_wp_, children_per_node_,
                    n_expanded_nodes_, tree_node_distance_, max_path_length_,
                    smoothing_margin_degrees_, tree_age_, lastCycle >>
  /\ CallSetGoal =>
       UNCHANGED << position_, velocity_, curr_yaw_histogram_frame_deg_, cloud_,
                    cost_params_, projected_last_wp_, children_per_node_,
                    n_expanded_nodes_, tree_node_distance_, max_path_length_,
                    smoothing_margin_degrees_, lastCycle >>
  /\ CallSetPointcloud =>
       UNCHANGED << position_, velocity_, curr_yaw_histogram_frame_deg_, goal_,
                    cost_params_, projected_last_wp_, children_per_node_,
                    n_expanded_nodes_, tree_node_distance_, max_path_length_,
                    smoothing_margin_degrees_, tree_age_, lastCycle >>
  /\ pc' # "idle" => UNCHANGED inputs

\* C14: every setter changes its own input fields only (setGoal tree_age_ too)
\* and leaves tree_, closed_set_ and the path as the last cycle left them; the
\* inputs do not change while a cycle runs.
C14_SettersFrame == [][C14_Step]_vars

\* between cycles the tree of the last cycle is still there although the
\* pose, the goal, the cloud and the parameters are no longer those it was
\* built from
C14_Witness ==
  /\ Completed
  /\ Size(tree_) > 1
  /\ tree_[0].position # position_
  /\ tree_[0].heuristic_ # Norm(VecSub(goal_, tree_[0].position))
  /\ n_expanded_nodes_ = 0
  /\ cloud_ = "empty"

\* the budget of a cycle: n_expanded_nodes_, or 0 when that is negative
Budget == IF n_expanded_nodes_ > 0 THEN n_expanded_nodes_ ELSE 0

\* the loop has made at most Budget iterations, and a finished cycle has a path
C15_Inv ==
  /\ n <= Budget
  /\ Size(closed_set_) <= Budget
  /\ Completed => (Size(path_node_positions_) >= 1 /\ Size(path_node_origins_) >= 1)

\* the loop is left as soon as the selection found no node, and the walk
\* moves to a smaller index with every step
C15_Step ==
  /\ (pc = "for" /\ ~ is_expanded_node) => pc' = "back"
  /\ (pc = "for" /\ n >= n_expanded_nodes_) => pc' = "back"
  /\ (pc = "back" /\ pc' = "back") => (tree_end' < tree_end /\ tree_end' >= 0)

\* C15: every cycle terminates and leaves a path that is not empty: the loop
\* makes at most n_expanded_nodes_ iterations and ends when the selection finds
\* no node, and the walk to the root moves to a smaller index with every step.
C15_Terminates ==
  /\ [] C15_Inv
  /\ [][C15_Step]_vars
  /\ (pc # "idle") ~> Completed

\* a cycle that used its whole budget is in its walk to the root, two steps
\* from it
C15_Witness ==
  /\ pc = "back"
  /\ n = n_expanded_nodes_
  /\ n = 2
  /\ tree_end > 0
  /\ tree_[tree_end].depth_ = 2

\* the open nodes within max_path_length_ of the start position
OpenInRadius == { i \in DOMAIN tree_ : ~ tree_[i].closed_ /\ InRadius(i) }

\* the selection step has just picked origin
Selected == pc = "for" /\ n > 0 /\ is_expanded_node

\* C17: the node the selection step picks is open and within the radius, and
\* no open node within the radius, at whatever depth, has a strictly lower
\* total_cost_.
C17_SelectsCheapest ==
  Selected =>
    /\ origin \in OpenInRadius
    /\ \A i \in OpenInRadius : ~ CostLess(tree_[i].total_cost_, tree_[origin].total_cost_)

\* a node of depth 2 is picked while a dearer node of depth 1 is open
C17_Witness ==
  /\ Selected
  /\ tree_[origin].depth_ = 2
  /\ \E i \in OpenInRadius :
       /\ tree_[i].depth_ = 1
       /\ CostLess(tree_[origin].total_cost_, tree_[i].total_cost_)

\* the destination of a finished path
Destination == path_node_origins_[0]

\* C19 as stated: the destination is an open node of the lowest cost among the
\* open nodes within the radius.
C19_DestinationOpen ==
  (Completed /\ n_expanded_nodes_ > 0 /\ children_per_node_ > 0
             /\ tree_node_distance_ > 0) =>
    /\ Destination \in OpenInRadius
    /\ \A i \in OpenInRadius :
         ~ CostLess(tree_[i].total_cost_, tree_[Destination].total_cost_)

\* the open nodes the selection step can take
Selectable == { i \in OpenInRadius : CostLess(tree_[i].total_cost_, Inf) }

\* C19: the destination is the last selected origin.  When a node can still be
\* selected at the end of the cycle, it is the open node of the lowest cost
\* within the radius; when none can, it is the node expanded last, which is
\* closed.
C19_DestinationIsOrigin ==
  Completed =>
    /\ Destination = origin
    /\ IF Selectable # {}
       THEN /\ Destination \in Selectable
            /\ \A i \in Selectable :
                 ~ CostLess(tree_[i].total_cost_, tree_[Destination].total_cost_)
       ELSE /\ closed_set_ # Empty
            /\ Destination = closed_set_[Last(closed_set_)]
            /\ tree_[Destination].closed_

\* the loop stopped before the budget was used up, and the destination is the
\* root, closed, with its children out of the radius
C19_Witness ==
  /\ Completed
  /\ Size(closed_set_) < n_expanded_nodes_
  /\ Size(tree_) > 1
  /\ tree_[Destination].closed_
  /\ Selectable = {}

RECURSIVE PathCost(_)
PathCost(i) == IF i = 0 THEN 0 ELSE edge_costs[i] + PathCost(tree_[i].origin_)

\* C18 as stated: for every node, total_cost_ minus heuristic_ is the sum of
\* the edge costs along its parent chain.
C18_EveryNode ==
  (n_expanded_nodes_ > 0 /\ children_per_node_ > 0 /\ tree_node_distance_ > 0) =>
    \A i \in DOMAIN tree_ :
      CostSub(tree_[i].total_cost_, tree_[i].heuristic_) = PathCost(i)

\* C18: for every node that is not a dead end, total_cost_ minus heuristic_ is
\* the sum of the edge costs along its parent chain; the total_cost_ of a dead
\* end is infinite, and a dead end has no children.
C18_CostIsPathSum ==
  \A i \in DOMAIN tree_ :
    IF i \in dead_ends
    THEN /\ tree_[i].total_cost_ = Inf
         /\ ChildrenOf(i) = {}
    ELSE CostSub(tree_[i].total_cost_, tree_[i].heuristic_) = PathCost(i)

\* a node of depth 2 whose two edges both cost something, under an origin of
\* a heuristic that is not 0
C18_Witness ==
  \E i \in DOMAIN tree_ :
    /\ tree_[i].depth_ = 2
    /\ edge_costs[i] > 0
    /\ edge_costs[tree_[i].origin_] > 0
    /\ tree_[tree_[i].origin_].heuristic_ > 0
    /\ tree_[i].heuristic_ > 0

\* the squared distance of node i to the goal
GoalDistance2(i) == Norm2(VecSub(goal_, tree_[i].position))

\* the length of the step from an origin to its children
StepLength == Norm(VecScale(tree_node_distance_, <<4, 3>>))

\* C16 as stated: with no points in the cloud, a goal ahead and positive
\* budget, branching, step and radius, the destination is strictly closer to
\* the goal than the root.
C16_CloserToGoal ==
  (/\ Completed
   /\ cloud_ = "empty"
   /\ n_expanded_nodes_ > 0
   /\ children_per_node_ > 0
   /\ tree_node_distance_ > 0
   /\ max_path_length_ > 0)
  => GoalDistance2(Destination) < GoalDistance2(0)

\* C16: the same when, besides, the step is not below the distance that makes
\* two nodes close and is below the radius, and the goal is two steps away or
\* more.
C16_CloserWhenStepFits ==
  (/\ Completed
   /\ cloud_ = "empty"
   /\ n_expanded_nodes_ > 0
   /\ children_per_node_ > 0
   /\ StepLength >= CloseNodeThreshold
   /\ StepLength < max_path_length_
   /\ 2 * StepLength <= Norm(VecSub(goal_, tree_[0].position)))
  => /\ Destination # 0
     /\ GoalDistance2(Destination) < GoalDistance2(0)

\* a path of three nodes that ends at the goal
C16_Witness ==
  /\ Completed
  /\ cloud_ = "empty"
  /\ StepLength < max_path_length_
  /\ Size(path_node_origins_) = 3
  /\ tree_[Destination].position = goal_
  /\ GoalDistance2(0) > 0

\* C12: a cycle with the inputs of an earlier cycle, in which the extraction
\* and costFunction return what they returned then, leaves the tree_,
\* closed_set_ and path of that cycle, whatever the cycle before it left: a
\* cycle starts from a tree_ of the first node alone and a closed_set_ that is
\* empty, and the walk to the root from paths that are empty.
C12_Step ==
  /\ (pc = "back" /\ pc' = "idle" /\ Replaying /\ replay.first_results # {})
       => lastCycle' \in replay.first_results
  /\ (pc = "idle" /\ pc' # "idle") => (Size(tree_') = 1 /\ closed_set_' = Empty)
  /\ (pc = "for" /\ pc' = "back")
       => (path_node_positions_' = Empty /\ path_node_origins_' = Empty)

C12_SameResult == [][C12_Step]_vars

\* a compared cycle, not the first, under way over what a cycle with another
\* goal left: a tree_ that has other nodes and a path that is another
C12_Witness ==
  /\ pc = "for"
  /\ n = 1
  /\ Replaying
  /\ \E first \in replay.first_results :
       /\ tree_ = first[1]
       /\ Size(tree_) > 2
       /\ path_node_positions_ # first[3]
       /\ Size(path_node_positions_) > 1

====
